---- MODULE Spec2Model ----
(***************************************************************************)
(* Passport validation service: the three-stage pipeline of               *)
(* passport_validation.py (quality gate, MRZ extraction through a          *)
(* temporary file, layout check) and the handler that runs it.            *)
(*                                                                         *)
(* An image is described by what the pipeline reads from its pixels: its   *)
(* shape, the variance of its Laplacian, what the OCR provider recognises  *)
(* in it and the boxes the face detector returns for it.  Both providers   *)
(* are deterministic functions of the pixels.                              *)
(***************************************************************************)
EXTENDS Integers, Sequences, FiniteSets, TLC

(* ------------------------------ bounds -------------------------------- *)
\* worker processes (or requests in flight) serving the application
NWorkers == 2
\* boxes the face detector returns for one image
MaxFaces == 2

(* ------------------------- program constants -------------------------- *)
MIN_WIDTH == 800
MIN_HEIGHT == 600
MIN_SHARPNESS == 50
SCORE_THRESHOLD == 50
\* the face limit  x > width * 0.4  as the ratio 2/5
FACE_X_NUM == 2
FACE_X_DEN == 5
\* the minimum the resolution message states
STATED_MIN_WIDTH == 1200
STATED_MIN_HEIGHT == 900

Workers == 1..NWorkers

\* Python's None
None == [none |-> TRUE]

(* ------------------------------ messages ------------------------------ *)
RESOLUTION_MSG == <<"Image resolution too low (min 1200x900 pixels required)">>
BlurryMsg(sharpness) == <<"Image is too blurry (sharpness score: ", sharpness, ")">>
QUALITY_OK_MSG == <<"Image quality OK">>
NO_FACE_MSG == <<"No face detected in passport photo">>
FACE_POSITION_MSG == <<"Face position incorrect (should be on right side)">>
LAYOUT_OK_MSG == <<"Basic layout OK">>
MRZ_ERROR_MSG == <<"MRZ not found or invalid">>
INVALID_IMAGE_MSG == <<"Invalid image file">>

(* ------------------------ what the OCR returns ------------------------ *)
\* the identity fields PassportEye parses from the two MRZ lines
Holders ==
  { [country |-> "UTO", number |-> "L898902C3", date_of_birth |-> "740812",
     expiration_date |-> "120415", names |-> "ANNA MARIA", surname |-> "ERIKSSON",
     sex |-> "F", nationality |-> "UTO"],
    [country |-> "TUN", number |-> "X12345678", date_of_birth |-> "900101",
     expiration_date |-> "300101", names |-> "ALI", surname |-> "BEN SALAH",
     sex |-> "M", nationality |-> "TUN"] }

AllValid ==
  [valid_number |-> TRUE, valid_date_of_birth |-> TRUE,
   valid_expiration_date |-> TRUE, valid_composite |-> TRUE]

\* the per-field check results, each check passed or failed
Breakdowns == [DOMAIN AllValid -> BOOLEAN]

Scores == {SCORE_THRESHOLD, SCORE_THRESHOLD + 1}

Mrz(holder, score, flags) ==
  [country |-> holder.country, number |-> holder.number,
   date_of_birth |-> holder.date_of_birth,
   expiration_date |-> holder.expiration_date,
   names |-> holder.names, surname |-> holder.surname, sex |-> holder.sex,
   nationality |-> holder.nationality,
   valid_score |-> score,
   valid_number |-> flags.valid_number,
   valid_date_of_birth |-> flags.valid_date_of_birth,
   valid_expiration_date |-> flags.valid_expiration_date,
   valid_composite |-> flags.valid_composite]

\* an MRZ object that carries no valid_score attribute
UnscoredMrz == [country |-> "UTO", number |-> "L898902C3"]

\* the OCR provider fails on these pixels: read_mrz raises
OcrCrash == [raises |-> "read_mrz failed"]

MrzRecords == {Mrz(h, s, f) : h \in Holders, s \in Scores, f \in Breakdowns}

\* what read_mrz makes of an image: None, an MRZ object, or an exception
MrzZones == {None, OcrCrash, UnscoredMrz} \cup MrzRecords

(* ------------------------------ images -------------------------------- *)
Widths == {MIN_WIDTH - 1, MIN_WIDTH, STATED_MIN_WIDTH}
Heights == {MIN_HEIGHT - 1, MIN_HEIGHT, STATED_MIN_HEIGHT}
Sharpnesses == {MIN_SHARPNESS - 1, MIN_SHARPNESS}

\* x origins of detected boxes: 10%, 40% and 50% of the width
FaceXs(width) == {width \div 10, (2 * width) \div 5, width \div 2}

\* a box (x, y, w, h)
Box(x) == <<x, 0, 1, 1>>

SeqsUpTo(S, n) == UNION {[1..k -> S] : k \in 0..n}

FaceLists(width) == SeqsUpTo({Box(x) : x \in FaceXs(width)}, MaxFaces)

Image(w, h, s, m, f) ==
  [width |-> w, height |-> h, sharpness |-> s, mrz_zone |-> m, faces |-> f]

\* every shape and sharpness, around a page the later stages accept
ShapeSamples ==
  { Image(w, h, s, Mrz(CHOOSE x \in Holders : TRUE, SCORE_THRESHOLD + 1, AllValid),
          <<Box(w \div 10)>>) :
      w \in Widths, h \in Heights, s \in Sharpnesses }

\* every MRZ outcome with every list of boxes, on the smallest image the
\* quality gate lets through
PageSamples ==
  { Image(MIN_WIDTH, MIN_HEIGHT, MIN_SHARPNESS, m, f) :
      m \in MrzZones, f \in FaceLists(MIN_WIDTH) }

Images == ShapeSamples \cup PageSamples

\* the uploaded bytes: an encoded image, or bytes no decoder accepts
Garbage == [garbage |-> TRUE]
Uploads == {Garbage} \cup Images

\* cv2.imdecode: the image, or None
imdecode(contents) == IF contents = Garbage THEN None ELSE contents

(* ---------------------------- temp file ------------------------------- *)
NoFile == [exists |-> FALSE]

\* cv2.imwrite(temp_path, image): the file now holds this image's pixels, of
\* which the only reader, read_mrz, sees the MRZ zone
imwrite(file, image) == [exists |-> TRUE, mrz_zone |-> image.mrz_zone]

\* passporteye.read_mrz(temp_path)
read_mrz(file) == IF file = NoFile THEN [raises |-> "file not found"] ELSE file.mrz_zone

Raises(r) == "raises" \in DOMAIN r

(* ------------------------------ stages -------------------------------- *)
\* mutant: the sharpness check comes before the resolution check
check_image_quality_blur_first(image) ==
  IF image.sharpness < MIN_SHARPNESS
    THEN <<FALSE, BlurryMsg(image.sharpness)>>
  ELSE IF image.width < MIN_WIDTH \/ image.height < MIN_HEIGHT
    THEN <<FALSE, RESOLUTION_MSG>>
  ELSE <<TRUE, QUALITY_OK_MSG>>

check_image_quality(image) ==
  IF image.width < MIN_WIDTH \/ image.height < MIN_HEIGHT
    THEN <<FALSE, RESOLUTION_MSG>>
  ELSE IF image.sharpness < MIN_SHARPNESS
    THEN <<FALSE, BlurryMsg(image.sharpness)>>
  ELSE <<TRUE, QUALITY_OK_MSG>>

hasattr(obj, attr) == attr \in DOMAIN obj

MrzData(mrz) ==
  [country |-> mrz.country,
   passport_number |-> mrz.number,
   birth_date |-> mrz.date_of_birth,
   expiry_date |-> mrz.expiration_date,
   name |-> mrz.names,
   surname |-> mrz.surname,
   gender |-> mrz.sex,
   nationality |-> mrz.nationality,
   validation_details |->
     [valid_score |-> mrz.valid_score,
      number_valid |-> mrz.valid_number,
      dob_valid |-> mrz.valid_date_of_birth,
      expiry_valid |-> mrz.valid_expiration_date,
      composite_valid |-> mrz.valid_composite]]

\* mutant: a score equal to the threshold is accepted
mrz_verdict_at_threshold(mrz) ==
  IF mrz = None
    THEN <<FALSE, None>>
  ELSE IF ~hasattr(mrz, "valid_score") \/ mrz.valid_score < SCORE_THRESHOLD
    THEN <<FALSE, None>>
  ELSE <<TRUE, MrzData(mrz)>>

\* mutant: a rejected record is handed back with its breakdown
mrz_verdict_with_breakdown(mrz) ==
  IF mrz = None
    THEN <<FALSE, None>>
  ELSE IF ~hasattr(mrz, "valid_score")
    THEN <<FALSE, None>>
  ELSE IF mrz.valid_score <= SCORE_THRESHOLD
    THEN <<FALSE, MrzData(mrz)>>
  ELSE <<TRUE, MrzData(mrz)>>

\* validate_mrz after read_mrz returned mrz
mrz_verdict(mrz) ==
  IF mrz = None
    THEN <<FALSE, None>>
  ELSE IF ~hasattr(mrz, "valid_score") \/ mrz.valid_score <= SCORE_THRESHOLD
    THEN <<FALSE, None>>
  ELSE <<TRUE, MrzData(mrz)>>

\* mutant: the last box decides
check_passport_layout_last_box(image) ==
  LET faces == image.faces IN
  IF Len(faces) = 0
    THEN <<FALSE, NO_FACE_MSG>>
  ELSE IF faces[Len(faces)][1] * FACE_X_DEN > image.width * FACE_X_NUM
    THEN <<FALSE, FACE_POSITION_MSG>>
  ELSE <<TRUE, LAYOUT_OK_MSG>>

\* x > width * 0.4 on an integer x: the double width * 0.4 lies on the same
\* side of every integer as the exact product, so this is 5x > 2 * width
check_passport_layout(image) ==
  LET faces == image.faces IN
  IF Len(faces) = 0
    THEN <<FALSE, NO_FACE_MSG>>
  ELSE IF faces[1][1] * FACE_X_DEN > image.width * FACE_X_NUM
    THEN <<FALSE, FACE_POSITION_MSG>>
  ELSE <<TRUE, LAYOUT_OK_MSG>>

(* ----------------------------- responses ------------------------------ *)
JSONResponse(status_code, content) ==
  [type |-> "JSONResponse", status_code |-> status_code, content |-> content]

HTTPException(status_code, detail) ==
  [type |-> "HTTPException", status_code |-> status_code, detail |-> detail]

Failure(msg) == JSONResponse(400, [valid |-> FALSE, error |-> msg])

Success(mrz_data, quality_msg, layout_msg) ==
  [type |-> "dict", status_code |-> 200,
   content |->
     [valid |-> TRUE,
      country |-> mrz_data.country,
      passport_number |-> mrz_data.passport_number,
      birth_date |-> mrz_data.birth_date,
      expiry_date |-> mrz_data.expiry_date,
      name |-> <<mrz_data.surname, " ", mrz_data.name>>,
      gender |-> mrz_data.gender,
      nationality |-> mrz_data.nationality,
      checks |-> [image_quality |-> quality_msg, layout_validation |-> layout_msg]]]

\* str(e): Starlette prints an HTTPException as "status: detail" (releases
\* before it defined __str__ print ""); any other exception prints its message
StrOf(e) ==
  IF hasattr(e, "status_code")
    THEN <<"400", ": ">> \o e.detail
    ELSE <<e.raises>>

\* except Exception as e: raise HTTPException(500, f"Processing error: {str(e)}")
ProcessingError(e) == HTTPException(500, <<"Processing error: ">> \o StrOf(e))

(* ------------------------------- state -------------------------------- *)
VARIABLES
  pc,        \* per worker: where its validate_passport call stands
  upload,    \* per worker: the bytes of the request
  quality,   \* per worker: (quality_ok, quality_msg)
  mrz,       \* per worker: what read_mrz returned
  mrz_res,   \* per worker: (mrz_ok, mrz_data)
  layout,    \* per worker: (layout_ok, layout_msg)
  response,  \* per worker: what the call answered
  ran,       \* per worker: the stages the call has executed, in order
  prev,      \* per worker: the answer to the same bytes one call earlier
  tempFile,  \* temp_passport.jpg in the working directory
  ck         \* the MRZ field under the check digit validator

pipeline == <<pc, upload, quality, mrz, mrz_res, layout, response, ran, prev, tempFile>>

vars == <<pipeline, ck>>

\* a local not assigned yet: Unset for an object, <<>> for a result pair
Unset == [unset |-> TRUE]

NoField == [field |-> <<>>]

Idle ==
  /\ pc = [p \in Workers |-> "idle"]
  /\ upload = [p \in Workers |-> Unset]
  /\ quality = [p \in Workers |-> <<>>]
  /\ mrz = [p \in Workers |-> Unset]
  /\ mrz_res = [p \in Workers |-> <<>>]
  /\ layout = [p \in Workers |-> <<>>]
  /\ response = [p \in Workers |-> Unset]
  /\ ran = [p \in Workers |-> <<>>]
  /\ prev = [p \in Workers |-> Unset]
  /\ tempFile = NoFile

Init == Idle /\ ck = NoField

(* ---------------------------- the handler ----------------------------- *)
Cleared(f, p) == [f EXCEPT ![p] = Unset]

ClearedPair(f, p) == [f EXCEPT ![p] = <<>>]

\* a request arrives: contents = await file.read()
Receive(p, U) ==
  /\ pc[p] = "idle"
  /\ \E u \in U : upload' = [upload EXCEPT ![p] = u]
  /\ pc' = [pc EXCEPT ![p] = "decode"]
  /\ UNCHANGED <<quality, mrz, mrz_res, layout, response, ran, prev, tempFile, ck>>

\* the client takes the answer and sends the identical bytes once more
Resubmit(p) ==
  /\ pc[p] = "done"
  /\ prev' = [prev EXCEPT ![p] = response[p]]
  /\ pc' = [pc EXCEPT ![p] = "decode"]
  /\ quality' = ClearedPair(quality, p)
  /\ mrz' = Cleared(mrz, p)
  /\ mrz_res' = ClearedPair(mrz_res, p)
  /\ layout' = ClearedPair(layout, p)
  /\ response' = Cleared(response, p)
  /\ ran' = [ran EXCEPT ![p] = <<>>]
  /\ UNCHANGED <<upload, tempFile, ck>>

\* image = cv2.imdecode(...); if image is None: raise HTTPException(400, ...),
\* which the handler's own  except Exception  catches and re-raises
Decode(p) ==
  /\ pc[p] = "decode"
  /\ IF imdecode(upload[p]) = None
       THEN /\ response' = [response EXCEPT ![p] =
                   ProcessingError(HTTPException(400, INVALID_IMAGE_MSG))]
            /\ pc' = [pc EXCEPT ![p] = "done"]
       ELSE /\ pc' = [pc EXCEPT ![p] = "quality"]
            /\ UNCHANGED response
  /\ UNCHANGED <<upload, quality, mrz, mrz_res, layout, ran, prev, tempFile, ck>>

\* mutant: a failed quality check does not end the call
QualityContinues(p) ==
  /\ pc[p] = "quality"
  /\ quality' = [quality EXCEPT ![p] = check_image_quality(imdecode(upload[p]))]
  /\ ran' = [ran EXCEPT ![p] = Append(@, "QUALITY")]
  /\ pc' = [pc EXCEPT ![p] = "mrz_write"]
  /\ UNCHANGED <<upload, mrz, mrz_res, layout, response, prev, tempFile, ck>>

\* Step 1: image quality check
Quality(p) ==
  /\ pc[p] = "quality"
  /\ LET res == check_image_quality(imdecode(upload[p])) IN
       /\ quality' = [quality EXCEPT ![p] = res]
       /\ ran' = [ran EXCEPT ![p] = Append(@, "QUALITY")]
       /\ IF ~res[1]
            THEN /\ response' = [response EXCEPT ![p] = Failure(res[2])]
                 /\ pc' = [pc EXCEPT ![p] = "done"]
            ELSE /\ pc' = [pc EXCEPT ![p] = "mrz_write"]
                 /\ UNCHANGED response
  /\ UNCHANGED <<upload, mrz, mrz_res, layout, prev, tempFile, ck>>

\* validate_mrz from the value read_mrz gave, and the handler's branch on it
FinishMrz(p, m) ==
  /\ mrz' = [mrz EXCEPT ![p] = m]
  /\ IF Raises(m)
       THEN /\ response' = [response EXCEPT ![p] = ProcessingError(m)]
            /\ pc' = [pc EXCEPT ![p] = "done"]
            /\ UNCHANGED mrz_res
       ELSE LET res == mrz_verdict(m) IN
            /\ mrz_res' = [mrz_res EXCEPT ![p] = res]
            /\ IF ~res[1]
                 THEN /\ response' = [response EXCEPT ![p] = Failure(MRZ_ERROR_MSG)]
                      /\ pc' = [pc EXCEPT ![p] = "done"]
                 ELSE /\ pc' = [pc EXCEPT ![p] = "layout"]
                      /\ UNCHANGED response
  /\ UNCHANGED <<upload, quality, layout, prev, ck>>

\* mutant: read_mrz runs on the file before imwrite refreshes it
MrzWriteAfterRead(p) ==
  /\ pc[p] = "mrz_write"
  /\ FinishMrz(p, read_mrz(tempFile))
  /\ tempFile' = imwrite(tempFile, imdecode(upload[p]))
  /\ ran' = [ran EXCEPT ![p] = Append(@, "MRZ")]

\* Step 2, first half: cv2.imwrite("temp_passport.jpg", image)
MrzWrite(p) ==
  /\ pc[p] = "mrz_write"
  /\ tempFile' = imwrite(tempFile, imdecode(upload[p]))
  /\ ran' = [ran EXCEPT ![p] = Append(@, "MRZ")]
  /\ pc' = [pc EXCEPT ![p] = "mrz_read"]
  /\ UNCHANGED <<upload, quality, mrz, mrz_res, layout, response, prev, ck>>

\* Step 2, second half: read_mrz("temp_passport.jpg") and the checks on it
MrzRead(p) ==
  /\ pc[p] = "mrz_read"
  /\ FinishMrz(p, read_mrz(tempFile))
  /\ UNCHANGED <<ran, tempFile>>

\* Step 3: layout validation, then the success payload
Layout(p) ==
  /\ pc[p] = "layout"
  /\ LET res == check_passport_layout(imdecode(upload[p])) IN
       /\ layout' = [layout EXCEPT ![p] = res]
       /\ response' = [response EXCEPT ![p] =
            IF ~res[1] THEN Failure(res[2])
            ELSE Success(mrz_res[p][2], quality[p][2], res[2])]
  /\ ran' = [ran EXCEPT ![p] = Append(@, "LAYOUT")]
  /\ pc' = [pc EXCEPT ![p] = "done"]
  /\ UNCHANGED <<upload, quality, mrz, mrz_res, prev, tempFile, ck>>

\* the answer leaves; the call's locals are gone, the temp file stays
Respond(p) ==
  /\ pc[p] = "done"
  /\ prev' = Cleared(prev, p)
  /\ pc' = [pc EXCEPT ![p] = "idle"]
  /\ upload' = Cleared(upload, p)
  /\ quality' = ClearedPair(quality, p)
  /\ mrz' = Cleared(mrz, p)
  /\ mrz_res' = ClearedPair(mrz_res, p)
  /\ layout' = ClearedPair(layout, p)
  /\ response' = Cleared(response, p)
  /\ ran' = [ran EXCEPT ![p] = <<>>]
  /\ UNCHANGED <<tempFile, ck>>

(* ------------------- one call at a time (uvicorn.run) ------------------ *)
AllIdle == \A q \in Workers : pc[q] = "idle"

ReceiveOne(p) == AllIdle /\ Receive(p, Uploads)

Next ==
  \E p \in Workers :
    \/ ReceiveOne(p)
    \/ Resubmit(p)
    \/ Decode(p)
    \/ Quality(p)
    \/ MrzWrite(p)
    \/ MrzRead(p)
    \/ Layout(p)
    \/ Respond(p)

Spec == Init /\ [][Next]_vars

(* --------- several worker processes sharing the working directory ------ *)
GoodImage(h) ==
  [width |-> MIN_WIDTH, height |-> MIN_HEIGHT, sharpness |-> MIN_SHARPNESS,
   mrz_zone |-> Mrz(h, SCORE_THRESHOLD + 1, AllValid),
   faces |-> <<Box(MIN_WIDTH \div 10)>>]

WorkerUploads == {Garbage} \cup {GoodImage(h) : h \in Holders}

ReceiveAny(p) == Receive(p, WorkerUploads)

NextWorkers ==
  \E p \in Workers :
    \/ ReceiveAny(p)
    \/ Decode(p)
    \/ Quality(p)
    \/ MrzWrite(p)
    \/ MrzRead(p)
    \/ Layout(p)
    \/ Respond(p)

SpecWorkers == Init /\ [][NextWorkers]_vars

(* -------------------- the check digit validator --------------------- *)
\* read_mrz's check digit test (PassportEye, called at validate_mrz), as
\* section 4.3 of the specification spells it out

\* longest field (without its check digit) put to the validator
MaxLen == 2

DIGITS == <<"0", "1", "2", "3", "4", "5", "6", "7", "8", "9">>

LETTERS ==
  <<"A", "B", "C", "D", "E", "F", "G", "H", "I", "J", "K", "L", "M",
    "N", "O", "P", "Q", "R", "S", "T", "U", "V", "W", "X", "Y", "Z">>

FILLER == "<"

\* 0-9 -> itself, A-Z -> 10-35, '<' -> 0
CharValue(c) ==
  IF c = FILLER THEN 0
  ELSE IF \E i \in 1..Len(DIGITS) : DIGITS[i] = c
    THEN (CHOOSE i \in 1..Len(DIGITS) : DIGITS[i] = c) - 1
  ELSE (CHOOSE i \in 1..Len(LETTERS) : LETTERS[i] = c) + 9

WEIGHTS == <<7, 3, 1>>

\* weight of the character at position i (from 1): 7, 3, 1, 7, 3, 1, ...
Weight(i) == WEIGHTS[((i - 1) % 3) + 1]

RECURSIVE WeightedSum(_, _)
WeightedSum(txt, n) ==
  IF n = 0 THEN 0 ELSE WeightedSum(txt, n - 1) + CharValue(txt[n]) * Weight(n)

\* mutant: the last character is left out of the sum
CheckDigitShort(txt) == DIGITS[(WeightedSum(txt, Len(txt) - 1) % 10) + 1]

\* sum(value_i * weight_i) mod 10, as a character
CheckDigit(txt) == DIGITS[(WeightedSum(txt, Len(txt)) % 10) + 1]

\* compare to the stored check digit
ChecksumValid(txt, stored) == CheckDigit(txt) = stored

\* the characters fields are drawn from: digits, letters and the filler,
\* with several of the same value modulo 10
SampleChars == {"0", "1", "9", "A", "B", "K", "Z", FILLER}

Fields == UNION {[1..k -> SampleChars] : k \in 1..MaxLen}

\* a field as printed: its characters, then its check digit
Printed(txt) == Append(txt, CheckDigit(txt))

Unchanged == [pos |-> 0, was |-> "", now |-> ""]

InitChecksum ==
  /\ Idle
  /\ \E txt \in Fields :
       ck = [field |-> Printed(txt), change |-> Unchanged, valid |-> "unchecked"]

\* one character of the printed field is replaced by a different one
Alter ==
  /\ ck.change = Unchanged
  /\ ck.valid = "unchecked"
  /\ \E i \in 1..Len(ck.field), c \in SampleChars :
       /\ c # ck.field[i]
       /\ ck' = [ck EXCEPT !.field = [@ EXCEPT ![i] = c],
                           !.change = [pos |-> i, was |-> ck.field[i], now |-> c]]
  /\ UNCHANGED pipeline

\* the validator runs on the field: all but the last character against the last
Validate ==
  /\ ck.valid = "unchecked"
  /\ LET n == Len(ck.field) IN
       ck' = [ck EXCEPT !.valid =
                IF ChecksumValid(SubSeq(ck.field, 1, n - 1), ck.field[n])
                  THEN "valid" ELSE "invalid"]
  /\ UNCHANGED pipeline

NextChecksum == Alter \/ Validate

SpecChecksum == InitChecksum /\ [][NextChecksum]_vars

(* ============================== claims =============================== *)
Stages == <<"QUALITY", "MRZ", "LAYOUT">>

IsPrefix(a, b) == Len(a) <= Len(b) /\ \A i \in 1..Len(a) : a[i] = b[i]

\* how a stage of worker p's call came out, from the call's locals
Outcome(p, stage) ==
  CASE stage = "QUALITY" ->
         IF quality[p] = <<>> THEN "pending"
         ELSE IF quality[p][1] THEN "pass" ELSE "fail"
    [] stage = "MRZ" ->
         IF mrz[p] = Unset THEN "pending"
         ELSE IF Raises(mrz[p]) THEN "raise"
         ELSE IF mrz_res[p][1] THEN "pass" ELSE "fail"
    [] stage = "LAYOUT" ->
         IF layout[p] = <<>> THEN "pending"
         ELSE IF layout[p][1] THEN "pass" ELSE "fail"

\* the reason a failed stage hands to the caller
Reason(p, stage) ==
  CASE stage = "QUALITY" -> quality[p][2]
    [] stage = "MRZ" -> <<"MRZ not found or invalid">>
    [] stage = "LAYOUT" -> layout[p][2]

(* C1: in every call the stages run in the order QUALITY, MRZ, LAYOUT; a    *)
(* stage runs only if every earlier one passed; a stage that fails ends the *)
(* call with that stage's reason and nothing later runs; success comes only *)
(* after all three passed.                                                  *)
C1_StagesInOrder ==
  \A p \in Workers :
    LET r == ran[p] IN
    /\ IsPrefix(r, Stages)
    /\ \A i \in 1..Len(r) : i < Len(r) => Outcome(p, r[i]) = "pass"
    /\ (r # <<>> /\ Outcome(p, r[Len(r)]) \in {"fail", "raise"}) => pc[p] = "done"
    /\ pc[p] = "done" =>
         \/ r = <<>> /\ upload[p] = Garbage
         \/ /\ r # <<>>
            /\ Outcome(p, r[Len(r)]) = "fail"
            /\ response[p] = JSONResponse(400, [valid |-> FALSE, error |-> Reason(p, r[Len(r)])])
         \/ /\ r # <<>>
            /\ Outcome(p, r[Len(r)]) = "raise"
            /\ response[p].status_code = 500
         \/ /\ r = Stages
            /\ Outcome(p, "LAYOUT") = "pass"
            /\ response[p].type = "dict"
            /\ response[p].content.valid

\* a call that the MRZ stage ended: the layout stage never ran
C1_Witness ==
  \E p \in Workers :
    /\ pc[p] = "done"
    /\ ran[p] = <<"QUALITY", "MRZ">>
    /\ Outcome(p, "MRZ") = "fail"
    /\ layout[p] = <<>>

(* C2: concurrent calls never see each other's image: the MRZ a call        *)
(* obtains is the one read from its own image.                              *)
C2_ReadsOwnImage ==
  \A p \in Workers :
    mrz[p] # Unset => mrz[p] = imdecode(upload[p]).mrz_zone

(* C3: bytes that do not decode run no stage and are answered with the      *)
(* "Invalid image file" error (status 400), not with the processing error.  *)
C3_InvalidImageIsDistinct ==
  \A p \in Workers :
    (pc[p] = "done" /\ upload[p] = Garbage) =>
      /\ ran[p] = <<>>
      /\ response[p].status_code = 400
      /\ response[p].detail = <<"Invalid image file">>

LowConfidence(m) == hasattr(m, "valid_score") /\ m.valid_score <= 50

C5_ScoreAbove50 ==
  \A p \in Workers :
    (mrz_res[p] # <<>> /\ hasattr(mrz[p], "valid_score")) =>
      /\ mrz_res[p][1] <=> mrz[p].valid_score > 50
      /\ mrz[p].valid_score = 50 => ~mrz_res[p][1]
      /\ mrz[p].valid_score = 51 => mrz_res[p][1]
      /\ mrz_res[p][1] =>
           /\ mrz_res[p][2].passport_number = mrz[p].number
           /\ mrz_res[p][2].validation_details =
                [valid_score |-> mrz[p].valid_score,
                 number_valid |-> mrz[p].valid_number,
                 dob_valid |-> mrz[p].valid_date_of_birth,
                 expiry_valid |-> mrz[p].valid_expiration_date,
                 composite_valid |-> mrz[p].valid_composite]

\* a record scored 51 passes although its passport number check failed
C5_Witness ==
  \E p \in Workers :
    /\ mrz_res[p] # <<>>
    /\ mrz_res[p][1]
    /\ mrz[p].valid_score = 51
    /\ ~mrz_res[p][2].validation_details.number_valid

C8_SameAnswerTwice ==
  \A p \in Workers :
    (pc[p] = "done" /\ prev[p] # Unset) => response[p] = prev[p]

\* the repeated call went through the temp file and succeeded
C8_Witness ==
  \E p \in Workers :
    /\ pc[p] = "done"
    /\ prev[p] # Unset
    /\ ran[p] = Stages
    /\ response[p].type = "dict"

(* C10: every image the quality gate does not reject for resolution is at   *)
(* least 1200 wide and 900 high, as the rejection message says.             *)
C10_StatedMinimumEnforced ==
  \A p \in Workers :
    (quality[p] # <<>> /\ quality[p][2] # RESOLUTION_MSG) =>
      /\ upload[p].width >= STATED_MIN_WIDTH
      /\ upload[p].height >= STATED_MIN_HEIGHT

====
